---- MODULE Spec2Model ----
(***************************************************************************)
(* State-machine model of the nsyshid device/handle manager and transfer   *)
(* dispatcher (src/Cafe/OS/libs/nsyshid/nsyshid.cpp).                      *)
(*                                                                         *)
(* Execution contexts: host threads (backends attaching/detaching devices),*)
(* one guest thread (HID* exports), the workers the exports spawn, and the *)
(* coreinit asynchronous-callback service that drains asyncCallbacks.      *)
(* A step that the code runs entirely under hidMutex is one atomic action; *)
(* code that holds hidMutex across guest callbacks (HIDAddClient,          *)
(* HIDDelClient) holds the modelled mutex across its steps.                *)
(***************************************************************************)
EXTENDS Integers, Sequences, FiniteSets, TLC

----------------------------------------------------------------------------
(* Program constants *)

HID_MAX_NUM_DEVICES == 128

HID_CALLBACK_DETACH == 0

HID_CALLBACK_ATTACH == 1

FirstHidHandleSeed == 1

(* Bounds of the model *)

NumDevices == 2

NumClients == 2

NumHosts == 2

NumBackends == 1

MaxAttach == 3

MaxPending == 2

MaxWorkers == 1

MaxCompletions == 1

MaxLen == 1

----------------------------------------------------------------------------
(* Identities *)

nullptr == -1

NoThread == -1

GuestThread == 0

Hosts == 1..NumHosts

MainHost == 1

Clients == 1..NumClients

Backends == 1..NumBackends

ActiveDevices == 1..NumDevices

\* devices that fill the pool in the capacity scenario (PoolSpec): with them
\* attached one slot is left
NumBulk == HID_MAX_NUM_DEVICES - 1

BulkDevices == (NumDevices + 1)..(NumDevices + NumBulk)

Devices == ActiveDevices \cup BulkDevices

\* the backend that created device d
Owner(d) == ((d - 1) % NumBackends) + 1

Slots == 0..(HID_MAX_NUM_DEVICES - 1)

\* worker 0 is the std::async context of a synchronous transfer, the others are
\* the detached std::thread contexts of asynchronous transfers
SyncWorker == 0

WorkerIds == 0..MaxWorkers

AsyncWorkerIds == 1..MaxWorkers

TransferOps == {"GetDescriptor", "SetIdle", "SetProtocol", "SetReport", "Read", "Write"}

\* the operations whose synchronous mode runs on a std::async context
OffloadedOps == {"SetReport", "Read", "Write"}

\* MPTR_NULL and some other callback address
MPTR_NULL == 0

CallbackAddrs == {MPTR_NULL, 1}

\* the address of the caller's buffer
DataAddr == 1

\* handles a guest may pass: the seed, which is never issued, and every handle
\* the model can issue
HandleInputs == FirstHidHandleSeed..(FirstHidHandleSeed + MaxAttach)

Lengths == 0..MaxLen

\* what a device capability answered: whether it was called at all, its bool
\* (or Success) and, for Read and Write, its result variant and byte count
NoReply == [called |-> FALSE, ok |-> FALSE, result |-> "none", n |-> 0]

NoCall == [op |-> "none", handle |-> 0, cb |-> 0, len |-> 0, dev |-> 0,
           reply |-> NoReply]

\* the caller's data buffer as the guest passes it in, one entry per byte
CallerData == [i \in 1..MaxLen |-> "stale"]

FreeWorker == [state |-> "free", op |-> "none", handle |-> 0, dev |-> 0, cb |-> 0,
               len |-> 0,
               code |-> 0, reply |-> NoReply, buf |-> <<>>]

VARIABLES
    deviceList,                   \* std::list<std::shared_ptr<Device>> deviceList
    HIDClientList,                \* std::list<HIDClient_t*> HIDClientList
    backendList,                  \* std::list<std::shared_ptr<Backend>> backendList
    lastGeneratedHidHandle,       \* uint32 _lastGeneratedHidHandle
    HIDPoolIndexQueue,            \* std::queue<size_t> HIDPoolIndexQueue
    HIDPoolIndexQueueInitialized, \* static bool in InitHIDPoolIndexQueue
    HIDPool,                      \* HIDPool[i] = the handle field of slot i
    m_hid,                        \* Device::m_hid, a slot index or nullptr
    issued,                       \* the handles AttachDevice wrote, in order (observation)
    opened,                       \* Device::IsOpened()
    m_isAttached,                 \* Backend::m_isAttached
    m_devices,                    \* Backend::m_devices
    m_devicesMutex,               \* owner of Backend::m_devicesMutex
    hidMutex,                     \* owner of the recursive hidMutex
    asyncCallbacks,               \* queue behind coreinitAsyncCallback_add
    hpc, hdev, hbk, hidx, hcopy, hret,  \* host threads: position, locals, result
    gpc, gclient, gcursor,        \* guest thread: position, client, walk cursor
    ppcCalls,                     \* PPCCoreCallback calls of the running export
    gcall,                        \* the transfer export the guest thread is in
    gret,                         \* <<v>> once that export has returned v, else <<>>
    workers                       \* std::async / std::thread contexts of transfers

regVars == <<deviceList, lastGeneratedHidHandle, HIDPoolIndexQueue,
             HIDPoolIndexQueueInitialized, HIDPool, m_hid, issued>>

backendVars == <<backendList, m_isAttached, m_devices, m_devicesMutex>>

hostVars == <<hpc, hdev, hbk, hidx, hcopy, hret>>

xferVars == <<gcall, gret, workers>>

guestVars == <<gpc, gclient, gcursor, ppcCalls, gcall, gret, workers>>

vars == <<deviceList, HIDClientList, backendList, lastGeneratedHidHandle,
          HIDPoolIndexQueue, HIDPoolIndexQueueInitialized, HIDPool, m_hid, issued, opened,
          m_isAttached, m_devices, m_devicesMutex, hidMutex, asyncCallbacks,
          hpc, hdev, hbk, hidx, hcopy, hret, gpc, gclient, gcursor, ppcCalls,
          gcall, gret, workers>>

----------------------------------------------------------------------------
(* Sequence helpers *)

Range(s) == {s[i] : i \in 1..Len(s)}

InSeq(s, x) == \E i \in 1..Len(s) : s[i] = x

\* std::list::remove / erase of every element equal to x
Remove(s, x) == SelectSeq(s, LAMBDA e : e # x)

\* the sequence lo, lo+1, ..., hi
Iota(lo, hi) == [i \in 1..(hi - lo + 1) |-> lo + i - 1]

----------------------------------------------------------------------------
(* Handle pool *)

\* variant: the counter is returned without being advanced
GenerateHIDHandleStuck(last) == last

\* _lastGeneratedHidHandle++ on a uint32: the wrap to 0 needs 2^32 - 1 successful
\* attaches, which the bound MaxAttach keeps out of reach (and TLC's integers
\* end at 2^31 - 1), so the increment is modelled without the wrap
GenerateHIDHandle(last) == last + 1

\* the queue as GetFreeHID / ReleaseHID see it after InitHIDPoolIndexQueue()
InitHIDPoolIndexQueue(queue, initialized) ==
    IF initialized THEN queue
    ELSE queue \o Iota(0, HID_MAX_NUM_DEVICES - 1)

\* variant: no test for the empty queue
GetFreeHIDUnchecked(queue) == IF queue = <<>> THEN 0 ELSE Head(queue)

\* GetFreeHID: the slot handed out (nullptr when the queue is empty) ...
GetFreeHID(queue) == IF queue = <<>> THEN nullptr ELSE Head(queue)

\* variant: front() without pop()
PopHIDKeepsFront(queue) == queue

\* ... and the queue it leaves
PopHID(queue) == IF queue = <<>> THEN queue ELSE Tail(queue)

\* variant: the index is not put back
ReleaseHIDDropped(queue, index) == queue

ReleaseHID(queue, index) == Append(queue, index)

----------------------------------------------------------------------------
(* Client notifications *)

Notification(client, hid, kind) ==
    [type |-> "notify", client |-> client, hid |-> hid, kind |-> kind,
     handle |-> 0, error |-> 0, buffer |-> 0, length |-> 0]

\* variant: nothing is handed to the callback service
NotifyNoneAsync(clients, hid, kind) == <<>>

\* for (auto client : HIDClientList) Do{Attach,Detach}CallbackAsync(client, device)
NotifyAllAsync(clients, hid, kind) ==
    [i \in 1..Len(clients) |-> Notification(clients[i], hid, kind)]

\* variant: push_back
AttachClientToListBack(clients, c) == Append(clients, c)

AttachClientToList(clients, c) == <<c>> \o clients

DetachClientFromList(clients, c) == Remove(clients, c)

----------------------------------------------------------------------------
(* Locks *)

\* variant: the lookup's lock is still held when it returns
LockGuardStays(t) == t

\* the owner of hidMutex after the closing brace of a lock_guard's block
LockGuardEnds(t) == NoThread

\* variant: no lock is taken
HidMutexIgnored(t) == TRUE

\* std::lock_guard on the recursive hidMutex can be taken by thread t
HidMutexAvailable(t) == hidMutex \in {NoThread, t}

----------------------------------------------------------------------------
Init ==
    /\ deviceList = <<>>
    /\ HIDClientList = <<>>
    /\ lastGeneratedHidHandle = FirstHidHandleSeed
    /\ HIDPoolIndexQueue = <<>>
    /\ HIDPoolIndexQueueInitialized = FALSE
    /\ HIDPool = [s \in Slots |-> 0]
    /\ m_hid = [d \in Devices |-> nullptr]
    /\ issued = <<>>
    /\ opened = [d \in Devices |-> FALSE]
    /\ hidMutex = NoThread
    /\ asyncCallbacks = <<>>
    /\ backendList = <<>>
    /\ m_isAttached = [b \in Backends |-> FALSE]
    /\ m_devices = [b \in Backends |-> <<>>]
    /\ m_devicesMutex = [b \in Backends |-> NoThread]
    /\ hpc = [t \in Hosts |-> "idle"]
    /\ hdev = [t \in Hosts |-> 0]
    /\ hbk = [t \in Hosts |-> 0]
    /\ hidx = [t \in Hosts |-> 0]
    /\ hcopy = [t \in Hosts |-> <<>>]
    /\ hret = [t \in Hosts |-> "none"]
    /\ gpc = "idle"
    /\ gclient = 0
    /\ gcursor = 0
    /\ ppcCalls = <<>>
    /\ gcall = NoCall
    /\ gret = <<>>
    /\ workers = [w \in WorkerIds |-> FreeWorker]

----------------------------------------------------------------------------
(* Host-thread bookkeeping *)

\* thread t moves to position pc with these locals and this result
HostGoes(t, pc, dev, bk, idx, copy, ret) ==
    /\ hpc' = [hpc EXCEPT ![t] = pc]
    /\ hdev' = [hdev EXCEPT ![t] = dev]
    /\ hbk' = [hbk EXCEPT ![t] = bk]
    /\ hidx' = [hidx EXCEPT ![t] = idx]
    /\ hcopy' = [hcopy EXCEPT ![t] = copy]
    /\ hret' = [hret EXCEPT ![t] = ret]

\* thread t moves to position pc, locals kept
HostMoves(t, pc) == HostGoes(t, pc, hdev[t], hbk[t], hidx[t], hcopy[t], hret[t])

\* handles issued so far, and the attaches the model still lets the environment make
IssuedHandles == lastGeneratedHidHandle - FirstHidHandleSeed

\* bulk devices in the registry
BulkAttached == Len(SelectSeq(deviceList, LAMBDA e : e > NumDevices))

AttachBudgetLeft == IssuedHandles < MaxAttach + BulkAttached

\* room left in the model for the notifications one attach/detach enqueues
QueueHasRoom == Len(asyncCallbacks) + Len(HIDClientList) <= MaxPending

----------------------------------------------------------------------------
(* nsyshid::AttachDevice, one atomic step under hidMutex *)

AlreadyAttached(list, d) == InSeq(list, d)

AttachDeviceBody(d, ok) ==
    LET queue == InitHIDPoolIndexQueue(HIDPoolIndexQueue, HIDPoolIndexQueueInitialized)
        hidDevice == GetFreeHID(queue)
        handle == GenerateHIDHandle(lastGeneratedHidHandle)
    IN  IF AlreadyAttached(deviceList, d)
        THEN /\ ok = FALSE
             /\ UNCHANGED <<regVars, asyncCallbacks>>
        ELSE IF hidDevice = nullptr
        THEN /\ ok = FALSE
             /\ HIDPoolIndexQueue' = queue
             /\ HIDPoolIndexQueueInitialized' = TRUE
             /\ UNCHANGED <<deviceList, lastGeneratedHidHandle, HIDPool, m_hid,
                            issued, asyncCallbacks>>
        ELSE /\ ok = TRUE
             /\ HIDPoolIndexQueue' = PopHID(queue)
             /\ HIDPoolIndexQueueInitialized' = TRUE
             /\ lastGeneratedHidHandle' = handle
             /\ HIDPool' = [HIDPool EXCEPT ![hidDevice] = handle]
             /\ issued' = Append(issued, HIDPool'[hidDevice])
             /\ m_hid' = [m_hid EXCEPT ![d] = hidDevice]
             /\ deviceList' = Append(deviceList, d)
             /\ asyncCallbacks' = asyncCallbacks
                    \o NotifyAllAsync(HIDClientList, hidDevice, HID_CALLBACK_ATTACH)

AttachDevice(t, d) ==
    /\ hpc[t] = "idle"
    /\ HidMutexAvailable(t)
    /\ AttachBudgetLeft
    /\ QueueHasRoom
    /\ \E ok \in BOOLEAN :
          /\ AttachDeviceBody(d, ok)
          /\ HostGoes(t, "attachRet", d, 0, 0, <<>>, IF ok THEN "true" ELSE "false")
    /\ UNCHANGED <<HIDClientList, opened, hidMutex, backendVars, guestVars>>

----------------------------------------------------------------------------
(* nsyshid::DetachDevice: the part under hidMutex, then Device::Close() *)

\* variant: the lookup result is not tested
DeviceFoundAlways(list, d) == TRUE

DeviceFound(list, d) == InSeq(list, d)

DetachDeviceLocked(d, found) ==
    IF ~DeviceFound(deviceList, d)
    THEN /\ found = FALSE
         /\ UNCHANGED <<regVars, asyncCallbacks>>
    ELSE /\ found = TRUE
         /\ deviceList' = Remove(deviceList, d)
         /\ asyncCallbacks' = asyncCallbacks
                \o NotifyAllAsync(HIDClientList, m_hid[d], HID_CALLBACK_DETACH)
         /\ HIDPoolIndexQueue' =
                ReleaseHID(InitHIDPoolIndexQueue(HIDPoolIndexQueue,
                                                 HIDPoolIndexQueueInitialized),
                           m_hid[d])
         /\ HIDPoolIndexQueueInitialized' = TRUE
         /\ UNCHANGED <<lastGeneratedHidHandle, HIDPool, m_hid, issued>>

DetachDevice(t, d) ==
    /\ hpc[t] = "idle"
    /\ HidMutexAvailable(t)
    /\ QueueHasRoom
    /\ \E found \in BOOLEAN :
          /\ DetachDeviceLocked(d, found)
          /\ IF found
             THEN HostGoes(t, "close", d, 0, 0, <<>>, "none")
             ELSE HostGoes(t, "detachRet", d, 0, 0, <<>>, "notfound")
    /\ UNCHANGED <<HIDClientList, opened, hidMutex, backendVars, guestVars>>

\* device->Close(), outside the lock
DetachDeviceClose(t) ==
    /\ hpc[t] = "close"
    /\ opened' = [opened EXCEPT ![hdev[t]] = FALSE]
    /\ HostGoes(t, "detachRet", hdev[t], 0, 0, <<>>, "closed")
    /\ UNCHANGED <<regVars, HIDClientList, hidMutex, asyncCallbacks, backendVars,
                   guestVars>>

\* the call returns to the host thread's caller
HostReturn(t) ==
    /\ hpc[t] \in {"attachRet", "detachRet", "backendRet", "findRet"}
    /\ HostGoes(t, "idle", 0, 0, 0, <<>>, "none")
    /\ UNCHANGED <<regVars, HIDClientList, opened, hidMutex, asyncCallbacks,
                   backendVars, guestVars>>

----------------------------------------------------------------------------
(* Backend::AttachDevice / Backend::DetachDevice *)

DevicesMutexAvailable(b, t) == m_devicesMutex[b] \in {NoThread, t}

\* variant: the attached flag is not tested
BackendAttachedAlways(b) == TRUE

\* the m_isAttached test of Backend::AttachDevice and Backend::DetachDevice
BackendIsAttached(b) == m_isAttached[b]

\* std::lock_guard lock(this->m_devicesMutex)
BackendAttachDevice(t, b, d) ==
    /\ hpc[t] = "idle"
    /\ DevicesMutexAvailable(b, t)
    /\ m_devicesMutex' = [m_devicesMutex EXCEPT ![b] = t]
    /\ HostGoes(t, "bAttach", d, b, 0, <<>>, "none")
    /\ UNCHANGED <<regVars, HIDClientList, opened, hidMutex, asyncCallbacks,
                   backendList, m_isAttached, m_devices, guestVars>>

\* if (m_isAttached && nsyshid::AttachDevice(device)) m_devices.push_back(device)
BackendAttachDeviceBody(t) ==
    /\ hpc[t] = "bAttach"
    /\ LET b == hbk[t]
           d == hdev[t]
       IN  IF ~BackendIsAttached(b)
           THEN /\ HostGoes(t, "attachRet", d, b, 0, <<>>, "false")
                /\ m_devicesMutex' = [m_devicesMutex EXCEPT ![b] = NoThread]
                /\ UNCHANGED <<regVars, asyncCallbacks, m_devices>>
           ELSE /\ HidMutexAvailable(t)
                /\ AttachBudgetLeft
                /\ QueueHasRoom
                /\ \E ok \in BOOLEAN :
                      /\ AttachDeviceBody(d, ok)
                      /\ m_devices' = IF ok
                                      THEN [m_devices EXCEPT ![b] = Append(@, d)]
                                      ELSE m_devices
                      /\ HostGoes(t, "attachRet", d, b, 0, <<>>,
                                  IF ok THEN "true" ELSE "false")
                /\ m_devicesMutex' = [m_devicesMutex EXCEPT ![b] = NoThread]
    /\ UNCHANGED <<HIDClientList, opened, hidMutex, backendList, m_isAttached,
                   guestVars>>

BackendDetachDevice(t, b, d) ==
    /\ hpc[t] = "idle"
    /\ DevicesMutexAvailable(b, t)
    /\ m_devicesMutex' = [m_devicesMutex EXCEPT ![b] = t]
    /\ HostGoes(t, "bDetach", d, b, 0, <<>>, "none")
    /\ UNCHANGED <<regVars, HIDClientList, opened, hidMutex, asyncCallbacks,
                   backendList, m_isAttached, m_devices, guestVars>>

\* if (m_isAttached) { nsyshid::DetachDevice(device) [the locked part] ...
BackendDetachDeviceBody(t) ==
    /\ hpc[t] = "bDetach"
    /\ LET b == hbk[t]
           d == hdev[t]
       IN  IF ~BackendIsAttached(b)
           THEN /\ HostGoes(t, "detachRet", d, b, 0, <<>>, "notattached")
                /\ m_devicesMutex' = [m_devicesMutex EXCEPT ![b] = NoThread]
                /\ UNCHANGED <<regVars, asyncCallbacks, m_devices>>
           ELSE /\ HidMutexAvailable(t)
                /\ QueueHasRoom
                /\ \E found \in BOOLEAN :
                      /\ DetachDeviceLocked(d, found)
                      /\ IF found
                         THEN /\ HostGoes(t, "bDetachClose", d, b, 0, <<>>, "none")
                              /\ UNCHANGED <<m_devices, m_devicesMutex>>
                         ELSE /\ HostGoes(t, "detachRet", d, b, 0, <<>>, "notfound")
                              /\ m_devices' = [m_devices EXCEPT ![b] = Remove(@, d)]
                              /\ m_devicesMutex' =
                                     [m_devicesMutex EXCEPT ![b] = NoThread]
    /\ UNCHANGED <<HIDClientList, opened, hidMutex, backendList, m_isAttached,
                   guestVars>>

\* ... device->Close() at the end of nsyshid::DetachDevice;
\*     this->m_devices.remove(device); }
BackendDetachDeviceClose(t) ==
    /\ hpc[t] = "bDetachClose"
    /\ opened' = [opened EXCEPT ![hdev[t]] = FALSE]
    /\ m_devices' = [m_devices EXCEPT ![hbk[t]] = Remove(@, hdev[t])]
    /\ m_devicesMutex' = [m_devicesMutex EXCEPT ![hbk[t]] = NoThread]
    /\ HostGoes(t, "detachRet", hdev[t], hbk[t], 0, <<>>, "closed")
    /\ UNCHANGED <<regVars, HIDClientList, hidMutex, asyncCallbacks, backendList,
                   m_isAttached, guestVars>>

----------------------------------------------------------------------------
(* AttachBackend and Backend::OnAttach *)

\* variant: hidMutex is kept over the call of OnAttach / OnDetach
BackendListLockStays(t) == t

\* the owner of hidMutex after the block that updates backendList
BackendListLockEnds(t) == NoThread

\* { lock_guard(hidMutex); backendList.push_back(backend); }
AttachBackend(t, b) ==
    /\ hpc[t] = "idle"
    /\ HidMutexAvailable(t)
    /\ ~InSeq(backendList, b)
    /\ backendList' = Append(backendList, b)
    /\ HostGoes(t, "onAttach", 0, b, 0, <<>>, "none")
    /\ hidMutex' = BackendListLockEnds(t)
    /\ UNCHANGED <<regVars, HIDClientList, opened, asyncCallbacks,
                   m_isAttached, m_devices, m_devicesMutex, guestVars>>

\* Backend::OnAttach: lock_guard(m_devicesMutex); m_isAttached = true;
OnAttach(t) ==
    /\ hpc[t] = "onAttach"
    /\ DevicesMutexAvailable(hbk[t], t)
    /\ m_devicesMutex' = [m_devicesMutex EXCEPT ![hbk[t]] = t]
    /\ m_isAttached' = [m_isAttached EXCEPT ![hbk[t]] = TRUE]
    /\ HostGoes(t, "visible", 0, hbk[t], 1, <<>>, "none")
    /\ UNCHANGED <<regVars, HIDClientList, opened, hidMutex, asyncCallbacks,
                   backendList, m_devices, guestVars>>

\* AttachVisibleDevices() is the concrete backend's: it calls this->AttachDevice
\* for the devices it discovers.  The devices of the backend are taken in turn
\* and each is either discovered (Backend::AttachDevice runs, m_devicesMutex is
\* already held) or not.
AttachVisibleDevice(t) ==
    /\ hpc[t] = "visible"
    /\ hidx[t] <= NumDevices
    /\ LET b == hbk[t]
           d == hidx[t]
       IN  \/ /\ HostGoes(t, "visible", 0, b, d + 1, <<>>, "none")
              /\ UNCHANGED <<regVars, asyncCallbacks, m_devices>>
           \/ /\ Owner(d) = b
              /\ HidMutexAvailable(t)
              /\ AttachBudgetLeft
              /\ QueueHasRoom
              /\ \E ok \in BOOLEAN :
                    /\ AttachDeviceBody(d, ok)
                    /\ m_devices' = IF ok
                                    THEN [m_devices EXCEPT ![b] = Append(@, d)]
                                    ELSE m_devices
              /\ HostGoes(t, "visible", 0, b, d + 1, <<>>, "none")
    /\ UNCHANGED <<HIDClientList, opened, hidMutex, backendList, m_isAttached,
                   m_devicesMutex, guestVars>>

\* OnAttach returns and releases m_devicesMutex
OnAttachEnd(t) ==
    /\ hpc[t] = "visible"
    /\ hidx[t] > NumDevices
    /\ m_devicesMutex' = [m_devicesMutex EXCEPT ![hbk[t]] = NoThread]
    /\ HostGoes(t, "backendRet", 0, hbk[t], 0, <<>>, "none")
    /\ UNCHANGED <<regVars, HIDClientList, opened, hidMutex, asyncCallbacks,
                   backendList, m_isAttached, m_devices, guestVars>>

----------------------------------------------------------------------------
(* DetachBackend, DetachAllBackends, Backend::OnDetach, DetachAllDevices *)

\* { lock_guard(hidMutex); backendList.remove(backend); }
DetachBackend(t, b) ==
    /\ hpc[t] = "idle"
    /\ HidMutexAvailable(t)
    /\ backendList' = Remove(backendList, b)
    /\ HostGoes(t, "onDetach", 0, b, 0, <<>>, "none")
    /\ hidMutex' = BackendListLockEnds(t)
    /\ UNCHANGED <<regVars, HIDClientList, opened, asyncCallbacks,
                   m_isAttached, m_devices, m_devicesMutex, guestVars>>

\* { lock_guard(hidMutex); backendListCopy = backendList; backendList.clear(); }
DetachAllBackends(t) ==
    /\ hpc[t] = "idle"
    /\ HidMutexAvailable(t)
    /\ backendList' = <<>>
    /\ HostGoes(t, "detachBackends", 0, 0, 0, backendList, "none")
    /\ hidMutex' = BackendListLockEnds(t)
    /\ UNCHANGED <<regVars, HIDClientList, opened, asyncCallbacks,
                   m_isAttached, m_devices, m_devicesMutex, guestVars>>

\* for (const auto& backend : backendListCopy) backend->OnDetach();
DetachAllBackendsLoop(t) ==
    /\ hpc[t] = "detachBackends"
    /\ IF hcopy[t] = <<>>
       THEN HostGoes(t, "backendRet", 0, 0, 0, <<>>, "none")
       ELSE HostGoes(t, "onDetach", 0, Head(hcopy[t]), 0, Tail(hcopy[t]), "none")
    /\ UNCHANGED <<regVars, HIDClientList, opened, hidMutex, asyncCallbacks,
                   backendVars, guestVars>>

\* where OnDetach returns to: the loop of DetachAllBackends or DetachBackend's caller
AfterOnDetach(t) == IF hcopy[t] = <<>> THEN "backendRet" ELSE "detachBackends"

\* Backend::OnDetach: lock_guard(m_devicesMutex); DetachAllDevices() begins
\* (it takes the recursive m_devicesMutex again and tests m_isAttached)
OnDetach(t) ==
    /\ hpc[t] = "onDetach"
    /\ DevicesMutexAvailable(hbk[t], t)
    /\ IF m_isAttached[hbk[t]]
       THEN /\ m_devicesMutex' = [m_devicesMutex EXCEPT ![hbk[t]] = t]
            /\ HostGoes(t, "detachAll", 0, hbk[t], 1, hcopy[t], "none")
            /\ UNCHANGED m_isAttached
       ELSE \* nothing to detach; m_isAttached = false; unlock
            /\ m_isAttached' = [m_isAttached EXCEPT ![hbk[t]] = FALSE]
            /\ UNCHANGED m_devicesMutex
            /\ HostGoes(t, AfterOnDetach(t), 0, hbk[t], 0, hcopy[t], "none")
    /\ UNCHANGED <<regVars, HIDClientList, opened, hidMutex, asyncCallbacks,
                   backendList, m_devices, guestVars>>

\* for (const auto& device : m_devices) nsyshid::DetachDevice(device): locked part
DetachAllDevicesStep(t) ==
    /\ hpc[t] = "detachAll"
    /\ hidx[t] <= Len(m_devices[hbk[t]])
    /\ HidMutexAvailable(t)
    /\ QueueHasRoom
    /\ LET d == m_devices[hbk[t]][hidx[t]]
       IN  \E found \in BOOLEAN :
              /\ DetachDeviceLocked(d, found)
              /\ IF found
                 THEN HostGoes(t, "detachAllClose", d, hbk[t], hidx[t], hcopy[t], "none")
                 ELSE HostGoes(t, "detachAll", 0, hbk[t], hidx[t] + 1, hcopy[t], "none")
    /\ UNCHANGED <<HIDClientList, opened, hidMutex, backendVars, guestVars>>

\* device->Close() at the end of that nsyshid::DetachDevice
DetachAllDevicesClose(t) ==
    /\ hpc[t] = "detachAllClose"
    /\ opened' = [opened EXCEPT ![hdev[t]] = FALSE]
    /\ HostGoes(t, "detachAll", 0, hbk[t], hidx[t] + 1, hcopy[t], "none")
    /\ UNCHANGED <<regVars, HIDClientList, hidMutex, asyncCallbacks, backendVars,
                   guestVars>>

\* this->m_devices.clear(); back in OnDetach: m_isAttached = false; unlock
OnDetachEnd(t) ==
    /\ hpc[t] = "detachAll"
    /\ hidx[t] > Len(m_devices[hbk[t]])
    /\ m_devices' = [m_devices EXCEPT ![hbk[t]] = <<>>]
    /\ m_isAttached' = [m_isAttached EXCEPT ![hbk[t]] = FALSE]
    /\ m_devicesMutex' = [m_devicesMutex EXCEPT ![hbk[t]] = NoThread]
    /\ HostGoes(t, AfterOnDetach(t), 0, hbk[t], 0, hcopy[t], "none")
    /\ UNCHANGED <<regVars, HIDClientList, opened, hidMutex, asyncCallbacks,
                   backendList, guestVars>>

----------------------------------------------------------------------------
(* Lookups by vendor and product id *)

\* Device::m_vendorId and Device::m_productId, fixed by the constructor: the
\* devices of the model are one vendor's, each its own product
m_vendorId(d) == 1

m_productId(d) == d

VendorIds == {1, 2}

ProductIds == 1..NumDevices

\* the first element of list that is in the set wanted, 0 (nullptr) if none
FirstOf(list, wanted) ==
    LET hits == {i \in 1..Len(list) : list[i] \in wanted}
    IN  IF hits = {} THEN 0
        ELSE list[CHOOSE i \in hits : \A j \in hits : i <= j]

HasIds(vendorId, productId) ==
    {d \in Devices : m_vendorId(d) = vendorId /\ m_productId(d) = productId}

\* nsyshid::FindDeviceById: the first device of deviceList with these ids
FindDeviceById(vendorId, productId) ==
    FirstOf(deviceList, HasIds(vendorId, productId))

\* Backend::FindDevice with the predicate "has these ids": std::find_if over
\* this->m_devices
FindDevice(b, vendorId, productId) ==
    FirstOf(m_devices[b], HasIds(vendorId, productId))

\* Backend::FindDevice called by thread t, under m_devicesMutex
BackendFindDevice(t, b, vendorId, productId) ==
    /\ hpc[t] = "idle"
    /\ DevicesMutexAvailable(b, t)
    /\ HostGoes(t, "findRet", FindDevice(b, vendorId, productId), b, 0, <<>>,
                "FindDevice")
    /\ UNCHANGED <<regVars, HIDClientList, opened, hidMutex, asyncCallbacks,
                   backendVars, guestVars>>

\* Backend::FindDeviceById called by thread t:
\* return nsyshid::FindDeviceById(vendorId, productId), under hidMutex
BackendFindDeviceById(t, b, vendorId, productId) ==
    /\ hpc[t] = "idle"
    /\ HidMutexAvailable(t)
    /\ HostGoes(t, "findRet", FindDeviceById(vendorId, productId), b, 0, <<>>,
                "FindDeviceById")
    /\ UNCHANGED <<regVars, HIDClientList, opened, hidMutex, asyncCallbacks,
                   backendVars, guestVars>>

----------------------------------------------------------------------------
(* export_HIDAddClient / export_HIDDelClient: hidMutex is held from the     *)
(* list update to the end of the walk over deviceList                       *)

HIDAddClient(c) ==
    /\ gpc = "idle"
    /\ HidMutexAvailable(GuestThread)
    /\ ~InSeq(HIDClientList, c)
    /\ hidMutex' = GuestThread
    /\ HIDClientList' = AttachClientToList(HIDClientList, c)
    /\ gpc' = "addWalk"
    /\ gclient' = c
    /\ gcursor' = 1
    /\ ppcCalls' = <<>>
    /\ UNCHANGED <<xferVars, regVars, opened, asyncCallbacks, backendVars, hostVars>>

HIDDelClient(c) ==
    /\ gpc = "idle"
    /\ HidMutexAvailable(GuestThread)
    /\ InSeq(HIDClientList, c)
    /\ hidMutex' = GuestThread
    /\ HIDClientList' = DetachClientFromList(HIDClientList, c)
    /\ gpc' = "delWalk"
    /\ gclient' = c
    /\ gcursor' = 1
    /\ ppcCalls' = <<>>
    /\ UNCHANGED <<xferVars, regVars, opened, asyncCallbacks, backendVars, hostVars>>

WalkKind == IF gpc = "addWalk" THEN HID_CALLBACK_ATTACH ELSE HID_CALLBACK_DETACH

\* one iteration of "for (const auto& device : deviceList) Do*Callback(...)":
\* PPCCoreCallback runs the guest callback inline
ClientWalkStep ==
    /\ gpc \in {"addWalk", "delWalk"}
    /\ gcursor <= Len(deviceList)
    /\ ppcCalls' = Append(ppcCalls,
                          Notification(gclient, m_hid[deviceList[gcursor]], WalkKind))
    /\ gcursor' = gcursor + 1
    /\ UNCHANGED <<xferVars, regVars, HIDClientList, opened, hidMutex, asyncCallbacks,
                   backendVars, hostVars, gpc, gclient>>

\* the walk is over: osLib_returnFromFunction(hCPU, 0)
ClientWalkEnd ==
    /\ gpc \in {"addWalk", "delWalk"}
    /\ gcursor > Len(deviceList)
    /\ gpc' = IF gpc = "addWalk" THEN "addRet" ELSE "delRet"
    /\ UNCHANGED <<xferVars, regVars, HIDClientList, opened, hidMutex, asyncCallbacks,
                   backendVars, hostVars, gclient, gcursor, ppcCalls>>

\* the export returns and its lock_guard releases hidMutex
ClientReturn ==
    /\ gpc \in {"addRet", "delRet"}
    /\ gpc' = "idle"
    /\ hidMutex' = NoThread
    /\ gclient' = 0
    /\ gcursor' = 0
    /\ ppcCalls' = <<>>
    /\ UNCHANGED <<xferVars, regVars, HIDClientList, opened, asyncCallbacks, backendVars,
                   hostVars>>

----------------------------------------------------------------------------
(* coreinit's asynchronous callback service runs the oldest queued callback *)

AsyncCallbackDeliver ==
    /\ asyncCallbacks # <<>>
    /\ asyncCallbacks' = Tail(asyncCallbacks)
    /\ UNCHANGED <<regVars, HIDClientList, opened, hidMutex, backendVars, hostVars,
                   guestVars>>

----------------------------------------------------------------------------
(* Transfer dispatcher: result codes *)

\* GetDeviceByHandle: the first device of deviceList whose slot carries the handle
DevicesWithHandle(handle) ==
    {i \in 1..Len(deviceList) : HIDPool[m_hid[deviceList[i]]] = handle}

\* variant: the first registered device is taken, whatever its handle
GetDeviceByHandleAny(handle) == IF deviceList = <<>> THEN 0 ELSE deviceList[1]

GetDeviceByHandle(handle) ==
    IF DevicesWithHandle(handle) = {} THEN 0
    ELSE deviceList[CHOOSE i \in DevicesWithHandle(handle) :
                       \A j \in DevicesWithHandle(handle) : i <= j]

\* synchronous HIDGetDescriptor / HIDSetIdle / HIDSetProtocol, run by the caller
SyncInlineCode(op, ok, len) ==
    IF op = "GetDescriptor" THEN (IF ok THEN len ELSE -1)
    ELSE (IF ok THEN 0 ELSE -1)

\* _hidSetReportSync: returnCode = 0; if (device->SetReport(&message)) returnCode = length;
HidSetReportSync(ok, len) == IF ok THEN len ELSE 0

\* variant: a timeout reported as a plain error
HidReadInternalSyncNoTimeout(isOpened, result, n) ==
    IF ~isOpened THEN -1
    ELSE IF result = "Success" THEN n
    ELSE -1

\* _hidReadInternalSync
HidReadInternalSync(isOpened, result, n) ==
    IF ~isOpened THEN -1
    ELSE IF result = "Success" THEN n
    ELSE IF result = "Error" THEN -1
    ELSE IF result = "ErrorTimeout" THEN -108
    ELSE -1

\* _hidWriteInternalSync
HidWriteInternalSync(isOpened, result, n) ==
    IF ~isOpened THEN -1
    ELSE IF result = "Success" THEN n
    ELSE IF result = "Error" THEN -1
    ELSE IF result = "ErrorTimeout" THEN -108
    ELSE -1

\* variant: the byte count is passed as the error code
AsyncErrorCodeRaw(returnCode) == returnCode

\* _hidReadAsync / _hidWriteAsync: if (returnCode < 0) errorCode = returnCode;
AsyncErrorCode(returnCode) == IF returnCode < 0 THEN returnCode ELSE 0

\* (returnCode > 0) ? returnCode : 0
AsyncLength(returnCode) == IF returnCode > 0 THEN returnCode ELSE 0

\* variant: the asynchronous branch returns the failure status
AsyncReturnCodeFailure(op) == -1

\* returnCode = 0 after std::thread(...).detach(), in each of the six exports
AsyncReturnCode(op) == 0

\* variant: the completion is enqueued without the caller's callback address
TransferCallbackToNull(cb, handle, error, buffer, length) ==
    [type |-> "transfer", client |-> MPTR_NULL, hid |-> nullptr, kind |-> 0,
     handle |-> handle, error |-> error, buffer |-> buffer, length |-> length]

\* DoHIDTransferCallback: coreinitAsyncCallback_add(cb, 5, handle, error, buffer, length, param)
TransferCallback(cb, handle, error, buffer, length) ==
    [type |-> "transfer", client |-> cb, hid |-> nullptr, kind |-> 0,
     handle |-> handle, error |-> error, buffer |-> buffer, length |-> length]

ReadResults == {"Success", "Error", "ErrorTimeout"}

BoolReply(ok) == [called |-> TRUE, ok |-> ok, result |-> "none", n |-> 0]

\* everything the device may answer to the worker's request
Replies(w) ==
    IF w.op \in {"Read", "Write"}
    THEN {[called |-> TRUE, ok |-> TRUE, result |-> "Success", n |-> n] :
             n \in 0..w.len}
         \cup {[called |-> TRUE, ok |-> FALSE, result |-> r, n |-> 0] :
                  r \in ReadResults \ {"Success"}}
    ELSE {BoolReply(ok) : ok \in BOOLEAN}

\* variant: the buffer is handed to the device as the caller left it
ZeroFillSkipped(buf, maxLength) == buf

\* memset(data, 0, maxLength)
ZeroFill(buf, maxLength) ==
    [i \in 1..Len(buf) |-> IF i <= maxLength THEN "zero" ELSE buf[i]]

\* device->Read(&message) stores message.bytesRead bytes at the buffer's start
DeviceRead(buf, bytesRead) ==
    [i \in 1..Len(buf) |-> IF i <= bytesRead THEN "read" ELSE buf[i]]

----------------------------------------------------------------------------
(* Transfer dispatcher: the six exports on the guest thread *)

\* the export starts: GetDeviceByHandle's lookup under hidMutex
HIDTransfer(op, handle, cb, len) ==
    /\ gpc = "idle"
    /\ HidMutexAvailable(GuestThread)
    /\ cb # MPTR_NULL => \E w \in AsyncWorkerIds : workers[w].state = "free"
    /\ LET device == GetDeviceByHandle(handle)
       IN  /\ gcall' = [op |-> op, handle |-> handle, cb |-> cb, len |-> len,
                        dev |-> device, reply |-> NoReply]
           /\ IF device = 0
              THEN /\ gpc' = "xferRet"
                   /\ gret' = <<-1>>
              ELSE /\ gpc' = "open"
                   /\ gret' = <<>>
    /\ hidMutex' = LockGuardEnds(GuestThread)
    /\ UNCHANGED <<regVars, HIDClientList, opened, asyncCallbacks,
                   backendVars, hostVars, gclient, gcursor, ppcCalls, workers>>

\* variant: the lookup is made without openIfClosed
OpenIfClosedUnset(op) == FALSE

\* the second argument of GetDeviceByHandle(hidHandle, true) in the export of op
OpenIfClosed(op) == TRUE

\* if (openIfClosed && !device->IsOpened()) { if (!device->Open()) return nullptr; }
TransferOpen ==
    /\ gpc = "open"
    /\ IF ~OpenIfClosed(gcall.op) \/ opened[gcall.dev]
       THEN /\ gpc' = "dispatch"
            /\ UNCHANGED <<opened, gret, gcall>>
       ELSE \/ /\ opened' = [opened EXCEPT ![gcall.dev] = TRUE]
               /\ gpc' = "dispatch"
               /\ UNCHANGED <<gret, gcall>>
            \/ /\ gpc' = "xferRet"
               /\ gcall' = [gcall EXCEPT !.dev = 0]
               /\ gret' = <<-1>>
               /\ UNCHANGED opened
    /\ UNCHANGED <<regVars, HIDClientList, hidMutex, asyncCallbacks, backendVars,
                   hostVars, gclient, gcursor, ppcCalls, workers>>

NewWorker(c) ==
    [state |-> "run", op |-> c.op, handle |-> c.handle, dev |-> c.dev, cb |-> c.cb,
     len |-> c.len,
     code |-> 0, reply |-> NoReply, buf |-> CallerData]

\* asynchronous branch: std::thread(&_hid...Async, device, ...).detach(); returnCode = 0
TransferAsync ==
    /\ gpc = "dispatch"
    /\ gcall.cb # MPTR_NULL
    /\ \E w \in AsyncWorkerIds :
          /\ workers[w].state = "free"
          /\ workers' = [workers EXCEPT ![w] = NewWorker(gcall)]
    /\ gret' = <<AsyncReturnCode(gcall.op)>>
    /\ gpc' = "xferRet"
    /\ UNCHANGED <<regVars, HIDClientList, opened, hidMutex, asyncCallbacks,
                   backendVars, hostVars, gclient, gcursor, ppcCalls, gcall>>

\* synchronous HIDGetDescriptor / HIDSetIdle / HIDSetProtocol: the device
\* capability runs on the calling thread
TransferSyncInline ==
    /\ gpc = "dispatch"
    /\ gcall.cb = MPTR_NULL
    /\ gcall.op \notin OffloadedOps
    /\ \E ok \in BOOLEAN :
          /\ gret' = <<SyncInlineCode(gcall.op, ok, gcall.len)>>
          /\ gcall' = [gcall EXCEPT !.reply = BoolReply(ok)]
    /\ gpc' = "xferRet"
    /\ UNCHANGED <<regVars, HIDClientList, opened, hidMutex, asyncCallbacks,
                   backendVars, hostVars, gclient, gcursor, ppcCalls, workers>>

\* synchronous HIDSetReport / HIDRead / HIDWrite: OSInitEvent, std::async(...)
TransferSyncOffload ==
    /\ gpc = "dispatch"
    /\ gcall.cb = MPTR_NULL
    /\ gcall.op \in OffloadedOps
    /\ workers' = [workers EXCEPT ![SyncWorker] = NewWorker(gcall)]
    /\ gpc' = "wait"
    /\ UNCHANGED <<regVars, HIDClientList, opened, hidMutex, asyncCallbacks,
                   backendVars, hostVars, gclient, gcursor, ppcCalls, gcall, gret>>

\* OSWaitEvent(&event); returnCode = res.get();
TransferWait ==
    /\ gpc = "wait"
    /\ workers[SyncWorker].state = "done"
    /\ gret' = <<workers[SyncWorker].code>>
    /\ gcall' = [gcall EXCEPT !.reply = workers[SyncWorker].reply]
    /\ workers' = [workers EXCEPT ![SyncWorker] = FreeWorker]
    /\ gpc' = "xferRet"
    /\ UNCHANGED <<regVars, HIDClientList, opened, hidMutex, asyncCallbacks,
                   backendVars, hostVars, gclient, gcursor, ppcCalls>>

\* osLib_returnFromFunction(hCPU, returnCode)
TransferReturn ==
    /\ gpc = "xferRet"
    /\ gpc' = "idle"
    /\ gcall' = NoCall
    /\ gret' = <<>>
    /\ UNCHANGED <<regVars, HIDClientList, opened, hidMutex, asyncCallbacks,
                   backendVars, hostVars, gclient, gcursor, ppcCalls, workers>>

----------------------------------------------------------------------------
(* Transfer dispatcher: the worker contexts *)

\* the worker's result: _hid...InternalSync for Read and Write, _hidSetReportSync
\* for a synchronous SetReport, the status passed to the callback otherwise
WorkerCode(w, reply) ==
    IF w.op = "Read" THEN HidReadInternalSync(reply.called, reply.result, reply.n)
    ELSE IF w.op = "Write" THEN HidWriteInternalSync(reply.called, reply.result, reply.n)
    ELSE IF w.op = "SetReport" /\ w.cb = MPTR_NULL THEN HidSetReportSync(reply.ok, w.len)
    ELSE IF reply.ok THEN 0 ELSE -1

\* _hidReadInternalSync / _hidWriteInternalSync up to the device call: a device
\* that is not opened ends the transfer here; a read clears the buffer
WorkerIsOpened(id) ==
    /\ workers[id].state = "run"
    /\ workers[id].op \in {"Read", "Write"}
    /\ LET w == workers[id]
       IN  IF ~opened[w.dev]
           THEN workers' = [workers EXCEPT ![id] =
                               [@ EXCEPT !.state = "ran",
                                         !.code = WorkerCode(w, NoReply)]]
           ELSE workers' = [workers EXCEPT ![id] =
                               [@ EXCEPT !.state = "io",
                                         !.buf = IF w.op = "Read"
                                                 THEN ZeroFill(w.buf, w.len)
                                                 ELSE w.buf]]
    /\ UNCHANGED <<regVars, HIDClientList, opened, hidMutex, asyncCallbacks,
                   backendVars, hostVars, gpc, gclient, gcursor, ppcCalls, gcall, gret>>

\* the worker calls the device capability and takes its answer
WorkerRun(id) ==
    /\ workers[id].state =
          (IF workers[id].op \in {"Read", "Write"} THEN "io" ELSE "run")
    /\ \E reply \in Replies(workers[id]) :
          workers' = [workers EXCEPT ![id] =
                         [@ EXCEPT !.state = "ran",
                                   !.reply = reply,
                                   !.code = WorkerCode(workers[id], reply),
                                   !.buf = IF workers[id].op = "Read"
                                           THEN DeviceRead(workers[id].buf, reply.n)
                                           ELSE workers[id].buf]]
    /\ UNCHANGED <<regVars, HIDClientList, opened, hidMutex, asyncCallbacks,
                   backendVars, hostVars, gpc, gclient, gcursor, ppcCalls, gcall, gret>>

\* _hid...Sync: coreinit::OSSignalEvent(event); return returnCode;
WorkerSignal ==
    /\ workers[SyncWorker].state = "ran"
    /\ workers' = [workers EXCEPT ![SyncWorker] = [@ EXCEPT !.state = "done"]]
    /\ UNCHANGED <<regVars, HIDClientList, opened, hidMutex, asyncCallbacks,
                   backendVars, hostVars, gpc, gclient, gcursor, ppcCalls, gcall, gret>>

\* the completion callback of an asynchronous transfer; the handle is read from
\* device->m_hid->handle at this moment
WorkerCallback(id) ==
    /\ id \in AsyncWorkerIds
    /\ workers[id].state = "ran"
    /\ Len(asyncCallbacks) < MaxCompletions
    /\ LET w == workers[id]
           handleNow == HIDPool[m_hid[w.dev]]
       IN  asyncCallbacks' = Append(asyncCallbacks,
              IF w.op \in {"Read", "Write"}
              THEN TransferCallback(w.cb, handleNow, AsyncErrorCode(w.code),
                                    DataAddr, AsyncLength(w.code))
              ELSE IF w.op = "SetReport"
              THEN TransferCallback(w.cb, handleNow, w.code, DataAddr, w.len)
              ELSE TransferCallback(w.cb, handleNow, w.code, 0, 0))
    /\ workers' = [workers EXCEPT ![id] = FreeWorker]
    /\ UNCHANGED <<regVars, HIDClientList, opened, hidMutex, backendVars, hostVars,
                   gpc, gclient, gcursor, ppcCalls, gcall, gret>>

----------------------------------------------------------------------------
(* Next-state relations.  H is the set of host threads that run concurrently. *)

DeviceOps(H, D) ==
    \/ \E t \in H, d \in D : AttachDevice(t, d)
    \/ \E t \in H, d \in D : DetachDevice(t, d)
    \/ \E t \in H : DetachDeviceClose(t)
    \/ \E t \in H : HostReturn(t)

DeviceNext(H) == DeviceOps(H, ActiveDevices)

BackendNext(H) ==
    \/ \E t \in H, d \in ActiveDevices : BackendAttachDevice(t, Owner(d), d)
    \/ \E t \in H : BackendAttachDeviceBody(t)
    \/ \E t \in H, d \in ActiveDevices : BackendDetachDevice(t, Owner(d), d)
    \/ \E t \in H : BackendDetachDeviceBody(t)
    \/ \E t \in H : BackendDetachDeviceClose(t)
    \/ \E t \in H, b \in Backends : AttachBackend(t, b)
    \/ \E t \in H : OnAttach(t)
    \/ \E t \in H : AttachVisibleDevice(t)
    \/ \E t \in H : OnAttachEnd(t)
    \/ \E t \in H, b \in Backends : DetachBackend(t, b)
    \/ \E t \in H : DetachAllBackends(t)
    \/ \E t \in H : DetachAllBackendsLoop(t)
    \/ \E t \in H : OnDetach(t)
    \/ \E t \in H : DetachAllDevicesStep(t)
    \/ \E t \in H : DetachAllDevicesClose(t)
    \/ \E t \in H : OnDetachEnd(t)

LookupNext(H) ==
    \/ \E t \in H, b \in Backends, v \in VendorIds, p \in ProductIds :
          BackendFindDevice(t, b, v, p)
    \/ \E t \in H, b \in Backends, v \in VendorIds, p \in ProductIds :
          BackendFindDeviceById(t, b, v, p)
    \/ \E t \in H : HostReturn(t)

ClientNext ==
    \/ \E c \in Clients : HIDAddClient(c)
    \/ \E c \in Clients : HIDDelClient(c)
    \/ ClientWalkStep
    \/ ClientWalkEnd
    \/ ClientReturn
    \/ AsyncCallbackDeliver

\* the steps common to both modes of the six exports, for callbacks drawn from CB
TransferCalls(CB) ==
    \/ \E op \in TransferOps, handle \in HandleInputs, cb \in CB, len \in Lengths :
          HIDTransfer(op, handle, cb, len)
    \/ TransferOpen
    \/ TransferReturn

SyncTransferNext ==
    \/ TransferSyncInline
    \/ TransferSyncOffload
    \/ WorkerIsOpened(SyncWorker)
    \/ WorkerRun(SyncWorker)
    \/ WorkerSignal
    \/ TransferWait

AsyncTransferNext ==
    \/ TransferAsync
    \/ \E id \in AsyncWorkerIds : WorkerIsOpened(id)
    \/ \E id \in AsyncWorkerIds : WorkerRun(id)
    \/ \E id \in AsyncWorkerIds : WorkerCallback(id)
    \/ AsyncCallbackDeliver

TransferNext == TransferCalls(CallbackAddrs) \/ SyncTransferNext \/ AsyncTransferNext

\* every operation, every thread
Next ==
    \/ DeviceNext(Hosts)
    \/ BackendNext(Hosts)
    \/ LookupNext(Hosts)
    \/ ClientNext
    \/ TransferNext

Spec == Init /\ [][Next]_vars

\* device and backend operations racing on all host threads
RegistryNext == DeviceNext(Hosts) \/ BackendNext(Hosts)

RegistrySpec == Init /\ [][RegistryNext]_vars

\* client registration and notification against one host thread's device churn
ClientSpecNext == DeviceNext({MainHost}) \/ ClientNext

ClientSpec == Init /\ [][ClientSpecNext]_vars

\* one host thread attaching and detaching, directly and through the backends,
\* while every host thread looks devices up
LookupSpecNext ==
    DeviceNext({MainHost}) \/ BackendNext({MainHost}) \/ LookupNext(Hosts)

LookupSpec == Init /\ [][LookupSpecNext]_vars

\* the host threads driving devices through the backends only, one client
\* having subscribed before the first attach
BackendClientNext ==
    \/ BackendNext(Hosts)
    \/ \E t \in Hosts : HostReturn(t)
    \/ /\ IssuedHandles = 0
       /\ HIDClientList = <<>>
       /\ \E c \in Clients : HIDAddClient(c)
    \/ ClientWalkEnd
    \/ ClientReturn
    \/ AsyncCallbackDeliver

BackendClientSpec == Init /\ [][BackendClientNext]_vars

\* a guest that transfers synchronously while one host thread attaches and
\* detaches devices
SyncSpecNext ==
    DeviceNext({MainHost}) \/ TransferCalls({MPTR_NULL}) \/ SyncTransferNext

SyncSpec == Init /\ [][SyncSpecNext]_vars

\* a guest that transfers asynchronously while one host thread attaches and
\* detaches one device
OneDevice == {d \in ActiveDevices : \A e \in ActiveDevices : d <= e}

AsyncSpecNext ==
    \/ DeviceOps({MainHost}, OneDevice)
    \/ TransferCalls(CallbackAddrs \ {MPTR_NULL})
    \/ AsyncTransferNext

AsyncSpec == Init /\ [][AsyncSpecNext]_vars

\* a guest that uses both modes against one device that stays attached
AttachOnly == \E d \in OneDevice : AttachDevice(MainHost, d)

TransferSpecNext == AttachOnly \/ HostReturn(MainHost) \/ TransferNext

TransferSpec == Init /\ [][TransferSpecNext]_vars

\* the calls a host thread starts: the backend operations, one device
HostCall(t) ==
    \/ \E d \in OneDevice : AttachBudgetLeft /\ BackendAttachDevice(t, Owner(d), d)
    \/ \E d \in OneDevice : BackendDetachDevice(t, Owner(d), d)
    \/ \E b \in Backends : AttachBackend(t, b)
    \/ \E b \in Backends : DetachBackend(t, b)
    \/ DetachAllBackends(t)

\* the next step of the call thread t is in
HostStep(t) ==
    \/ BackendAttachDeviceBody(t)
    \/ BackendDetachDeviceBody(t)
    \/ BackendDetachDeviceClose(t)
    \/ OnAttach(t)
    \/ AttachVisibleDevice(t)
    \/ OnAttachEnd(t)
    \/ DetachAllBackendsLoop(t)
    \/ OnDetach(t)
    \/ DetachAllDevicesStep(t)
    \/ DetachAllDevicesClose(t)
    \/ OnDetachEnd(t)
    \/ HostReturn(t)

\* host threads racing through the backend operations while the guest
\* subscribes a client, which holds hidMutex over several steps
LockOrderNext ==
    \/ \E t \in Hosts : HostCall(t)
    \/ \E t \in Hosts : HostStep(t)
    \/ /\ IssuedHandles = 0
       /\ HIDClientList = <<>>
       /\ \E c \in Clients : HIDAddClient(c)
    \/ ClientWalkEnd
    \/ ClientReturn
    \/ AsyncCallbackDeliver

LockOrderSpec == Init /\ [][LockOrderNext]_vars

\* every started call keeps being scheduled, and gets a mutex that is free
\* again and again; the guest export and the callback service run on
LockOrderFairness ==
    /\ \A t \in Hosts : SF_vars(HostStep(t))
    /\ WF_vars(ClientWalkEnd)
    /\ WF_vars(ClientReturn)
    /\ WF_vars(AsyncCallbackDeliver)

LockOrderLiveSpec == LockOrderSpec /\ LockOrderFairness

\* a guest that subscribes and unsubscribes one client and transfers in both
\* modes, synchronously only once its asynchronous transfers are over, while
\* one host thread attaches and detaches one device
OneClient == {c \in Clients : \A e \in Clients : c <= e}

NoneInFlight ==
    /\ \A id \in AsyncWorkerIds : workers[id] = FreeWorker
    /\ asyncCallbacks = <<>>

LockSpecNext ==
    \/ DeviceOps({MainHost}, OneDevice)
    \/ \E c \in OneClient : HIDAddClient(c)
    \/ \E c \in OneClient : HIDDelClient(c)
    \/ ClientWalkStep
    \/ ClientWalkEnd
    \/ ClientReturn
    \/ TransferCalls(CallbackAddrs \ {MPTR_NULL})
    \/ AsyncTransferNext
    \/ /\ NoneInFlight
       /\ \E op \in TransferOps, handle \in HandleInputs, len \in Lengths :
             HIDTransfer(op, handle, MPTR_NULL, len)
    \/ SyncTransferNext

LockSpec == Init /\ [][LockSpecNext]_vars

\* the same, where every device operation returns, every worker thread runs on
\* and the callback service keeps delivering
TransferFairness ==
    /\ \A id \in WorkerIds : WF_vars(WorkerIsOpened(id))
    /\ \A id \in WorkerIds : WF_vars(WorkerRun(id))
    /\ \A id \in AsyncWorkerIds : SF_vars(WorkerCallback(id))
    /\ WF_vars(AsyncCallbackDeliver)

TransferLiveSpec == TransferSpec /\ TransferFairness

\* a guest that only passes handles no registered device carries, in both modes,
\* while one host thread attaches and detaches devices
UnknownHandleCall ==
    \E op \in TransferOps, handle \in HandleInputs, cb \in CallbackAddrs,
       len \in Lengths :
       /\ DevicesWithHandle(handle) = {}
       /\ HIDTransfer(op, handle, cb, len)

UnknownHandleNext ==
    DeviceNext({MainHost}) \/ UnknownHandleCall \/ TransferReturn

UnknownHandleSpec == Init /\ [][UnknownHandleNext]_vars

----------------------------------------------------------------------------
(* The pool at capacity: the bulk devices are attached one after the other  *)
(* and stay, which leaves one free slot, and from then on the active        *)
(* devices come and go.                                                     *)

BulkComplete == BulkAttached = NumBulk

\* the bulk device that is attached next
NextBulkDevice == NumDevices + BulkAttached + 1

BulkNext ==
    \/ /\ ~BulkComplete
       /\ AttachDevice(MainHost, NextBulkDevice)
    \/ /\ ~BulkComplete
       /\ HostReturn(MainHost)

\* at capacity, device and backend operations racing on all host threads
PoolNext ==
    \/ BulkNext
    \/ /\ BulkComplete
       /\ DeviceNext(Hosts)
    \/ /\ BulkComplete
       /\ BackendNext(Hosts)

PoolSpec == Init /\ [][PoolNext]_vars

\* at capacity, with a client that subscribed before any device existed and
\* whose notifications the callback service delivers
PoolClientNext ==
    \/ /\ IssuedHandles = 0
       /\ HIDClientList = <<>>
       /\ \E c \in Clients : HIDAddClient(c)
    \/ ClientWalkEnd
    \/ ClientReturn
    \/ AsyncCallbackDeliver
    \/ BulkNext
    \/ /\ BulkComplete
       /\ DeviceNext({MainHost})

PoolClientSpec == Init /\ [][PoolClientNext]_vars

----------------------------------------------------------------------------
(* Properties *)

\* slots of the registered devices
BoundSlots == {m_hid[deviceList[i]] : i \in 1..Len(deviceList)}

\* C1: at most 128 registered devices hold a slot, no slot is both in the free
\* queue and bound to a registered device, no two registered devices share a
\* slot, and the slot GetFreeHID would hand out next is bound to no registered
\* device.
C1_PoolConsistent ==
    LET queue == InitHIDPoolIndexQueue(HIDPoolIndexQueue, HIDPoolIndexQueueInitialized)
    IN  /\ Len(deviceList) <= HID_MAX_NUM_DEVICES
        /\ BoundSlots \subseteq Slots
        /\ Range(HIDPoolIndexQueue) \cap BoundSlots = {}
        /\ Cardinality(BoundSlots) = Len(deviceList)
        /\ GetFreeHID(queue) = nullptr \/ GetFreeHID(queue) \notin BoundSlots

\* all 128 slots bound, one of them a released slot that was handed out again
\* (the device that released it still points at it)
C1_Witness ==
    /\ Len(deviceList) = HID_MAX_NUM_DEVICES
    /\ HIDPoolIndexQueue = <<>>
    /\ \E d \in ActiveDevices, e \in ActiveDevices :
          /\ d # e
          /\ InSeq(deviceList, d)
          /\ ~InSeq(deviceList, e)
          /\ m_hid[e] = m_hid[d]

\* C2: the handles written by the successful AttachDevice calls are strictly
\* increasing (so none repeats), and each is 2 or greater (so none is the
\* reserved 1).
C2_HandlesIncrease ==
    /\ \A i \in 1..Len(issued) : issued[i] >= 2
    /\ \A i \in 1..(Len(issued) - 1) : issued[i] < issued[i + 1]

\* more attaches succeeded than there are slots: a slot was reused, and an
\* active device got a second handle
C2_Witness ==
    /\ Len(issued) > HID_MAX_NUM_DEVICES
    /\ \E d \in ActiveDevices :
          /\ InSeq(deviceList, d)
          /\ HIDPool[m_hid[d]] = issued[Len(issued)]
          /\ \E i \in 1..(Len(issued) - 1) : issued[i] = NumBulk + 2

\* what AttachDevice may not touch when it fails
AttachFrame == <<deviceList, HIDPoolIndexQueue, HIDPoolIndexQueueInitialized,
                 lastGeneratedHidHandle, HIDPool, m_hid, issued, asyncCallbacks,
                 HIDClientList>>

\* C3: a call of nsyshid::AttachDevice for a device that is in the registry, or
\* made while 128 devices are registered, returns false and changes neither the
\* registry, the free-slot queue, the handle counter, any slot binding or
\* handle, nor the pending notifications; and every call that returns false
\* changes none of them.
C3_AttachFailureNoChange ==
    [][\A t \in Hosts :
          (hpc[t] = "idle" /\ hpc'[t] = "attachRet")
          => /\ (InSeq(deviceList, hdev'[t]) \/ Len(deviceList) = HID_MAX_NUM_DEVICES)
                   => hret'[t] = "false"
             /\ hret'[t] = "false" => UNCHANGED AttachFrame]_vars

\* the 129th attach has just failed, with a notification still pending
C3_Witness ==
    \E t \in Hosts :
       /\ hpc[t] = "attachRet"
       /\ hret[t] = "false"
       /\ ~InSeq(deviceList, hdev[t])
       /\ Len(deviceList) = HID_MAX_NUM_DEVICES
       /\ HIDClientList # <<>>
       /\ asyncCallbacks # <<>>

\* C4: a call of nsyshid::DetachDevice for a device that is not in the registry
\* changes neither the registry, the free-slot queue, the handle counter, the
\* slots nor the pending notifications, releases no slot, and returns without
\* reaching Device::Close().
C4_DetachAbsentNoOp ==
    [][\A t \in Hosts :
          (hpc[t] = "idle" /\ hpc'[t] \in {"close", "detachRet"}
             /\ ~InSeq(deviceList, hdev'[t]))
          => /\ UNCHANGED <<regVars, HIDClientList, asyncCallbacks, opened>>
             /\ hpc'[t] = "detachRet"
             /\ hret'[t] = "notfound"]_vars

\* a second detach of a device that was attached and detached before has just
\* returned, with a client subscribed and another device registered
C4_Witness ==
    \E t \in Hosts :
       /\ hpc[t] = "detachRet"
       /\ hret[t] = "notfound"
       /\ m_hid[hdev[t]] # nullptr
       /\ deviceList # <<>>
       /\ HIDClientList # <<>>

\* C5: a device is in the registry exactly when it holds a slot reference.
C5_RegisteredIffBound ==
    \A d \in ActiveDevices : InSeq(deviceList, d) <=> m_hid[d] # nullptr

\* the catch-up notifications a client gets for the registry as it is
CatchUp(c, kind) ==
    [i \in 1..Len(deviceList) |-> Notification(c, m_hid[deviceList[i]], kind)]

\* C6: when the walk of HIDAddClient is over and the export is about to
\* return, the guest callback has run inline exactly once per registered
\* device, with event kind 1, in registry order; during the walk the calls made
\* so far are that list's prefix, hidMutex is held by the guest thread, and no
\* host thread is between the two halves of a registry change.
C6_AddClientCatchUp ==
    /\ gpc = "addRet" => ppcCalls = CatchUp(gclient, HID_CALLBACK_ATTACH)
    /\ gpc = "addWalk" =>
          /\ gcursor <= Len(deviceList) + 1
          /\ ppcCalls = SubSeq(CatchUp(gclient, HID_CALLBACK_ATTACH), 1, gcursor - 1)
    /\ gpc \in {"addWalk", "addRet"} =>
          /\ hidMutex = GuestThread
          /\ Head(HIDClientList) = gclient

\* a client registered with two devices attached has received both
C6_Witness ==
    /\ gpc = "addRet"
    /\ Len(deviceList) = 2
    /\ Len(ppcCalls) = 2
    /\ ppcCalls[1].hid # ppcCalls[2].hid

\* a synchronous call has come back from a device the export resolved and whose
\* capability was reached
SyncAnswered ==
    /\ gpc = "xferRet"
    /\ gcall.cb = MPTR_NULL
    /\ gcall.dev # 0
    /\ gcall.reply.called

\* C7: a synchronous Read or Write on a resolved, open device returns the
\* device's byte count when the device reports Success, -1 when it reports
\* Error and -108 when it reports ErrorTimeout, and nothing else.
C7_SyncReadWriteResult ==
    (SyncAnswered /\ gcall.op \in {"Read", "Write"}) =>
       /\ gcall.reply.result = "Success" => gret = <<gcall.reply.n>>
       /\ gcall.reply.result = "Error" => gret = <<-1>>
       /\ gcall.reply.result = "ErrorTimeout" => gret = <<-108>>
       /\ gret[1] \in {gcall.reply.n, -1, -108}

\* a synchronous Write has returned a Success count short of the buffer length
C7_Witness ==
    /\ SyncAnswered
    /\ gcall.op = "Write"
    /\ gcall.reply.result = "Success"
    /\ gcall.reply.n < gcall.len
    /\ gret = <<gcall.reply.n>>

\* C8: the completion callback of an asynchronous Read or Write whose internal
\* result is r carries (error r, length 0) when r is negative and (error 0,
\* length r) otherwise; the error is never positive and the length never
\* negative, Success with 0 bytes arrives as (0, 0) and a timeout as (-108, 0).
C8_AsyncReadWriteCallback ==
    [][\A id \in AsyncWorkerIds :
          (workers[id].state = "ran" /\ workers'[id].state = "free"
             /\ workers[id].op \in {"Read", "Write"})
          => LET r == workers[id].code
                 reply == workers[id].reply
                 done == asyncCallbacks'[Len(asyncCallbacks')]
             IN  /\ Len(asyncCallbacks') = Len(asyncCallbacks) + 1
                 /\ done.type = "transfer"
                 /\ r < 0 => (done.error = r /\ done.length = 0)
                 /\ r >= 0 => (done.error = 0 /\ done.length = r)
                 /\ done.error <= 0
                 /\ done.length >= 0
                 /\ (reply.result = "Success" /\ reply.n = 0)
                       => (done.error = 0 /\ done.length = 0)
                 /\ reply.result = "ErrorTimeout"
                       => (done.error = -108 /\ done.length = 0)]_vars

\* a timeout completion is pending for the guest
C8_Witness ==
    \E i \in 1..Len(asyncCallbacks) :
       /\ asyncCallbacks[i].type = "transfer"
       /\ asyncCallbacks[i].error = -108
       /\ asyncCallbacks[i].length = 0

\* the device capability reported failure: false from the bool capabilities,
\* Error from Read and Write
ReportedFailure(call) ==
    IF call.op \in {"Read", "Write"} THEN call.reply.result = "Error"
    ELSE ~call.reply.ok

\* C9: in synchronous mode each of the six operations returns -1 when the device
\* capability reports failure; synchronous SetReport returns the number of bytes
\* accepted on success.
C9_SyncFailureReturnsMinusOne ==
    /\ (SyncAnswered /\ ReportedFailure(gcall)) => gret = <<-1>>
    /\ (SyncAnswered /\ gcall.op = "SetReport" /\ gcall.reply.ok)
          => gret = <<gcall.len>>

\* C10 as stated: every call with a non-null callback address returns 0.
C10_AsyncAlwaysAccepted ==
    (gpc = "xferRet" /\ gcall.cb # MPTR_NULL) => gret = <<0>>

\* C10, amended: a call with a non-null callback address whose handle resolves
\* to a device (opened on demand if it was closed) takes the asynchronous
\* branch: it returns 0 in the step that starts the worker, the device
\* operation still outstanding; a call whose handle does not resolve returns
\* -1; a call with a null callback address starts no asynchronous worker.
C10_AsyncAcceptedWhenResolved ==
    [][/\ (gpc' = "xferRet" /\ gcall'.cb # MPTR_NULL)
             => gret' = (IF gcall'.dev # 0 THEN <<0>> ELSE <<-1>>)
       /\ (gpc = "dispatch" /\ gpc' # "dispatch")
             => IF gcall.cb # MPTR_NULL
                THEN /\ gpc' = "xferRet"
                     /\ \E w \in AsyncWorkerIds :
                           /\ workers[w].state = "free"
                           /\ workers'[w].state = "run"
                           /\ workers'[w].op = gcall.op
                ELSE /\ gpc' \in {"wait", "xferRet"}
                     /\ \A w \in AsyncWorkerIds : workers'[w] = workers[w]]_vars

\* an asynchronous call is returning 0 while its worker has not yet reached the
\* device
C10_Witness ==
    /\ gpc = "xferRet"
    /\ gcall.cb # MPTR_NULL
    /\ gcall.dev # 0
    /\ gret = <<0>>
    /\ \E w \in AsyncWorkerIds :
          workers[w].state = "run" /\ workers[w].op = gcall.op

\* C11: a transfer call whose handle matches no registered device (never
\* issued, or issued to a device detached since) returns -1 in either mode in
\* the step that looked the handle up; that step calls no device capability,
\* starts no worker, enqueues no completion callback and leaves the registry, the
\* pool, the handle counter and the devices' open state as they were, and the
\* only step left to the call is its return.
C11_UnknownHandle ==
    [][/\ (gpc = "idle" /\ gcall' # NoCall /\ DevicesWithHandle(gcall'.handle) = {})
             => /\ gpc' = "xferRet"
                /\ gret' = <<-1>>
                /\ gcall'.dev = 0
                /\ ~gcall'.reply.called
                /\ UNCHANGED <<regVars, opened, workers, asyncCallbacks>>
       /\ (gpc = "xferRet" /\ gpc' # gpc)
             => /\ gpc' = "idle"
                /\ UNCHANGED <<workers, asyncCallbacks>>]_vars

\* an asynchronous call on the handle of a device detached since has returned -1
C11_Witness ==
    /\ gpc = "xferRet"
    /\ gcall.cb # MPTR_NULL
    /\ gcall.dev = 0
    /\ DevicesWithHandle(gcall.handle) = {}
    /\ \E i \in 1..Len(issued) : issued[i] = gcall.handle
    /\ deviceList # <<>>
    /\ gret = <<-1>>
    /\ \A w \in WorkerIds : workers[w] = FreeWorker
    /\ asyncCallbacks = <<>>

\* what an asynchronous worker that took the device's answer hands to the
\* callback service, the handle apart
Completion(w) ==
    IF w.op \in {"Read", "Write"}
    THEN [error |-> IF w.code < 0 THEN w.code ELSE 0, buffer |-> DataAddr,
          length |-> IF w.code > 0 THEN w.code ELSE 0]
    ELSE IF w.op = "SetReport"
    THEN [error |-> IF w.reply.ok THEN 0 ELSE -1, buffer |-> DataAddr, length |-> w.len]
    ELSE [error |-> IF w.reply.ok THEN 0 ELSE -1, buffer |-> 0, length |-> 0]

\* C12: an accepted asynchronous request, its device operation returning, has
\* exactly one completion callback enqueued on the callback service: a started
\* worker eventually ends, it ends only by appending one callback with the
\* caller's callback address and the error code, buffer address and length of
\* its result, nothing else appends a callback, no worker calls the guest
\* inline, and the worker of a synchronous request enqueues nothing.
C12_OneCompletionEnqueued ==
    /\ \A id \in AsyncWorkerIds :
          (workers[id].state = "run") ~> (workers[id].state = "free")
    /\ [][/\ \A id \in AsyncWorkerIds :
                (workers[id].state # "free" /\ workers'[id] # workers[id])
                => \/ /\ workers[id].state \in {"run", "io"}
                      /\ workers'[id].state \in {"io", "ran"}
                      /\ workers'[id].state # workers[id].state
                      /\ asyncCallbacks' = asyncCallbacks
                   \/ /\ workers[id].state = "ran"
                      /\ workers'[id] = FreeWorker
                      /\ Len(asyncCallbacks') = Len(asyncCallbacks) + 1
                      /\ SubSeq(asyncCallbacks', 1, Len(asyncCallbacks)) = asyncCallbacks
                      /\ LET done == asyncCallbacks'[Len(asyncCallbacks')]
                             expected == Completion(workers[id])
                         IN  /\ done.type = "transfer"
                             /\ done.client = workers[id].cb
                             /\ done.client # MPTR_NULL
                             /\ done.error = expected.error
                             /\ done.buffer = expected.buffer
                             /\ done.length = expected.length
          /\ Len(asyncCallbacks') > Len(asyncCallbacks)
                => \E id \in AsyncWorkerIds :
                      workers[id].state = "ran" /\ workers'[id] = FreeWorker
          /\ workers'[SyncWorker] # workers[SyncWorker]
                => asyncCallbacks' = asyncCallbacks
          /\ workers' # workers => ppcCalls' = ppcCalls]_vars

\* a successful completion waits in the queue, its worker gone and the guest
\* long returned
C12_Witness ==
    /\ gpc = "idle"
    /\ \A id \in WorkerIds : workers[id] = FreeWorker
    /\ \E i \in 1..Len(asyncCallbacks) :
          /\ asyncCallbacks[i].type = "transfer"
          /\ asyncCallbacks[i].client # MPTR_NULL
          /\ asyncCallbacks[i].error = 0
          /\ asyncCallbacks[i].length > 0

\* C13: Backend::AttachDevice on a detached backend returns false and leaves
\* the registry, the pool, the handle counter, the pending notifications and
\* the owned list unchanged, and Backend::DetachDevice on a detached backend
\* removes nothing from the registry or the owned list; on an attached backend
\* the device is appended to the owned list exactly when the registry attach
\* succeeded.
C13_DetachedBackendInert ==
    [][\A t \in Hosts :
          LET b == hbk[t]
              d == hdev[t]
          IN  /\ (hpc[t] = "bAttach" /\ hpc'[t] # "bAttach" /\ ~m_isAttached[b])
                    => /\ hret'[t] = "false"
                       /\ UNCHANGED <<regVars, asyncCallbacks, m_devices, m_isAttached>>
              /\ (hpc[t] = "bDetach" /\ hpc'[t] # "bDetach" /\ ~m_isAttached[b])
                    => UNCHANGED <<regVars, asyncCallbacks, m_devices, m_isAttached>>
              /\ (hpc[t] = "bAttach" /\ hpc'[t] # "bAttach" /\ m_isAttached[b])
                    => LET succeeded == ~InSeq(deviceList, d) /\ InSeq(deviceList', d)
                       IN  /\ succeeded <=> hret'[t] = "true"
                           /\ m_devices'[b] = IF succeeded THEN Append(m_devices[b], d)
                                              ELSE m_devices[b]]_vars

\* Backend::AttachDevice has returned false for an unregistered device on a
\* detached backend, with free slots left
C13_Witness ==
    \E t \in Hosts :
       /\ hpc[t] = "attachRet"
       /\ hbk[t] \in Backends
       /\ ~m_isAttached[hbk[t]]
       /\ hret[t] = "false"
       /\ ~InSeq(deviceList, hdev[t])
       /\ Len(deviceList) < HID_MAX_NUM_DEVICES
       /\ m_devices[hbk[t]] = <<>>

\* the free-slot queue as GetFreeHID and ReleaseHID see it
FreeSlots == InitHIDPoolIndexQueue(HIDPoolIndexQueue, HIDPoolIndexQueueInitialized)

\* C14: Backend::OnDetach on an attached backend takes the owned devices in
\* turn; each one that is registered is removed from the registry, one detach
\* notification per registered client is enqueued and its slot is appended to
\* the free queue, all while the owned list is intact and the backend still
\* attached; the owned list is cleared and the backend set to detached only in
\* the step that ends OnDetach, and then no device it owned is registered.
\* Free and bound slots always add up to the pool size, so the free slots grew
\* by the number of devices removed.
C14_OnDetachDetachesAll ==
    [][\A t \in Hosts :
          LET b == hbk[t]
          IN  /\ (hpc[t] = "detachAll" /\ hpc'[t] = "detachAllClose")
                    => LET d == m_devices[b][hidx[t]]
                       IN  /\ InSeq(deviceList, d)
                           /\ deviceList' = Remove(deviceList, d)
                           /\ asyncCallbacks' = asyncCallbacks \o
                                 [i \in 1..Len(HIDClientList) |->
                                    Notification(HIDClientList[i], m_hid[d],
                                                 HID_CALLBACK_DETACH)]
                           /\ HIDPoolIndexQueue' = Append(FreeSlots, m_hid[d])
                           /\ Len(FreeSlots') + Len(deviceList') = HID_MAX_NUM_DEVICES
                           /\ m_devices' = m_devices
                           /\ m_isAttached[b] /\ m_isAttached'[b]
              /\ (hpc[t] = "detachAll" /\ hpc'[t] \notin {"detachAll", "detachAllClose"})
                    => /\ \A i \in 1..Len(m_devices[b]) :
                             ~InSeq(deviceList', m_devices[b][i])
                       /\ m_devices'[b] = <<>>
                       /\ m_isAttached[b] /\ ~m_isAttached'[b]
                       /\ Len(FreeSlots') + Len(deviceList') = HID_MAX_NUM_DEVICES
              /\ (hpc[t] \in {"detachAll", "detachAllClose"}
                     /\ hpc'[t] \in {"detachAll", "detachAllClose"})
                    => (m_devices'[b] = m_devices[b] /\ m_isAttached'[b])]_vars

\* OnDetach has returned after detaching both devices of a backend, a client
\* subscribed: every slot is free again and a detach notification is pending
C14_Witness ==
    \E t \in Hosts :
       /\ hpc[t] = "backendRet"
       /\ hbk[t] \in Backends
       /\ ~m_isAttached[hbk[t]]
       /\ m_devices[hbk[t]] = <<>>
       /\ deviceList = <<>>
       /\ Len(HIDPoolIndexQueue) = HID_MAX_NUM_DEVICES
       /\ HIDPoolIndexQueue[HID_MAX_NUM_DEVICES] # HID_MAX_NUM_DEVICES - 1
       /\ HIDClientList # <<>>
       /\ \E i \in 1..Len(asyncCallbacks) :
             /\ asyncCallbacks[i].type = "notify"
             /\ asyncCallbacks[i].kind = HID_CALLBACK_DETACH

\* C15: the device a backend lookup (FindDevice with a predicate,
\* FindDeviceById) returns, if any, is in the calling backend's owned list at
\* the moment of the lookup.
C15_LookupOwnedOnly ==
    [][\A t \in Hosts :
          (hpc[t] = "idle" /\ hpc'[t] = "findRet" /\ hdev'[t] # 0)
          => InSeq(m_devices[hbk'[t]], hdev'[t])]_vars

\* the step of thread t that registered or unregistered a device
RegistryEvent(t) ==
    /\ hpc[t] = "idle"
    /\ hpc'[t] \in {"attachRet", "close"}
    /\ deviceList' # deviceList

C17_AsyncVersusInline ==
    [][/\ \A t \in Hosts :
             hpc'[t] # hpc[t]
             => /\ ppcCalls' = ppcCalls
                /\ RegistryEvent(t)
                   => /\ Len(asyncCallbacks') =
                            Len(asyncCallbacks) + Len(HIDClientList)
                      /\ \A i \in (Len(asyncCallbacks) + 1)..Len(asyncCallbacks') :
                            asyncCallbacks'[i].type = "notify"
       /\ (gpc' # gpc \/ gcursor' # gcursor)
             => asyncCallbacks' = asyncCallbacks
       /\ (gpc \in {"addWalk", "delWalk"} /\ gpc' \in {"addRet", "delRet"})
             => ppcCalls' = CatchUp(gclient, WalkKind)]_vars

\* a second client's registration has run its catch-up callback inline while
\* the first client's notification of the same device still waits in the queue
C17_Witness ==
    /\ gpc = "addRet"
    /\ ppcCalls # <<>>
    /\ asyncCallbacks # <<>>
    /\ asyncCallbacks[1].type = "notify"
    /\ asyncCallbacks[1].client # gclient
    /\ asyncCallbacks[1].hid = ppcCalls[1].hid

\* the detach notifications of slot hid that the callback service has not run
PendingDetach(hid) ==
    {i \in 1..Len(asyncCallbacks) :
        /\ asyncCallbacks[i].type = "notify"
        /\ asyncCallbacks[i].kind = HID_CALLBACK_DETACH
        /\ asyncCallbacks[i].hid = hid}

\* C18: once DetachDevice has taken a registered device out of the registry
\* and released its slot (it is about to close the device, or to return), no
\* detach callback for that device is still waiting to be run.
C18_DetachNotifiesSynchronously ==
    \A t \in Hosts :
       (hpc[t] = "close" \/ (hpc[t] = "detachRet" /\ hret[t] = "closed"))
       => PendingDetach(m_hid[hdev[t]]) = {}

\* C19: a worker in the read or write core that finds its device not opened
\* ends with -1, the device never called and the buffer as the caller passed it;
\* one that finds it opened has, for a read, every byte below maxLength cleared
\* before the device is called, and none of them is left as the caller passed
\* it whatever the device answers; the device is called nowhere else.
C19_ClosedDeviceUntouched ==
    [][\A id \in WorkerIds :
          LET w == workers[id]
              v == workers'[id]
          IN  /\ (w.state = "run" /\ w.op \in {"Read", "Write"} /\ v # w)
                    => IF ~opened[w.dev]
                       THEN /\ v.state = "ran"
                            /\ v.code = -1
                            /\ ~v.reply.called
                            /\ v.buf = CallerData
                       ELSE /\ v.state = "io"
                            /\ ~v.reply.called
                            /\ w.op = "Read"
                                  => \A i \in 1..Len(v.buf) :
                                        v.buf[i] = IF i <= w.len THEN "zero" ELSE "stale"
                            /\ w.op = "Write" => v.buf = CallerData
              /\ (w.state = "io" /\ v # w)
                    => /\ v.state = "ran"
                       /\ v.reply.called
                       /\ w.op = "Read"
                             => \A i \in 1..w.len : /\ w.buf[i] = "zero"
                                                    /\ v.buf[i] # "stale"
              /\ (w.op \in {"Read", "Write"} /\ ~w.reply.called /\ v.reply.called)
                    => w.state = "io"]_vars

\* a synchronous read of a full buffer has found its device closed: it ended
\* with -1, the device was not called and the buffer holds the caller's bytes
C19_Witness ==
    /\ workers[SyncWorker].state = "ran"
    /\ workers[SyncWorker].op = "Read"
    /\ workers[SyncWorker].len = MaxLen
    /\ ~opened[workers[SyncWorker].dev]
    /\ ~workers[SyncWorker].reply.called
    /\ workers[SyncWorker].code = -1
    /\ workers[SyncWorker].buf = CallerData

\* C20: in synchronous mode (no callback address) the answer of the device
\* capability reaches the call only from the worker context, after the caller
\* has waited for its signal; the calling context never runs the capability.
C20_SyncRunsOnWorker ==
    [][(gcall.cb = MPTR_NULL /\ ~gcall.reply.called /\ gcall'.reply.called)
          => /\ gpc = "wait"
             /\ workers[SyncWorker].state = "done"
             /\ gcall'.reply = workers[SyncWorker].reply]_vars

\* the positions at which a context is inside, or about to make, a device call
GuestDeviceCall == gpc \in {"open", "dispatch", "wait"}

HostDeviceCall(t) == hpc[t] \in {"close", "bDetachClose", "detachAllClose"}

C22_LazyOpen ==
    [][/\ (gpc = "open" /\ gpc' # gpc)
             => /\ UNCHANGED <<regVars, asyncCallbacks, workers>>
                /\ IF opened[gcall.dev]
                   THEN gpc' = "dispatch" /\ opened' = opened
                   ELSE \/ /\ gpc' = "dispatch"
                           /\ opened' = [opened EXCEPT ![gcall.dev] = TRUE]
                        \/ /\ gpc' = "xferRet"
                           /\ gret' = <<-1>>
                           /\ ~gcall'.reply.called
                           /\ opened' = opened
                /\ gpc' = "dispatch" => opened'[gcall.dev]
       /\ (gpc = "xferRet" /\ gcall.dev = 0 /\ gpc' # gpc)
             => /\ gpc' = "idle"
                /\ gret = <<-1>>
                /\ ~gcall.reply.called
                /\ UNCHANGED <<regVars, opened, asyncCallbacks, workers>>]_vars

\* an export is about to return -1 because Open failed on the registered,
\* closed device that carries its handle
C22_Witness ==
    /\ gpc = "xferRet"
    /\ gret = <<-1>>
    /\ gcall.dev = 0
    /\ \E i \in DevicesWithHandle(gcall.handle) : ~opened[deviceList[i]]

\* C23: the completion callback an asynchronous worker enqueues carries the
\* handle its request was issued with.
C23_CompletionHandle ==
    [][\A id \in AsyncWorkerIds :
          (workers[id].state = "ran" /\ workers'[id] = FreeWorker)
          => asyncCallbacks'[Len(asyncCallbacks')].handle = workers[id].handle]_vars

\* thread t is stopped at a lock another context holds
WaitsForHidMutex(t) ==
    /\ \/ hpc[t] \in {"bAttach", "bDetach"} /\ m_isAttached[hbk[t]]
       \/ hpc[t] = "detachAll" /\ hidx[t] <= Len(m_devices[hbk[t]])
    /\ ~HidMutexAvailable(t)

WaitsForDevicesMutex(t) ==
    /\ hpc[t] \in {"onAttach", "onDetach"}
    /\ ~DevicesMutexAvailable(hbk[t], t)

PendingFor(c) ==
    {i \in 1..Len(asyncCallbacks) :
        asyncCallbacks[i].type = "notify" /\ asyncCallbacks[i].client = c}

\* C25: a client that is not subscribed, HIDDelClient having returned for it
\* if it ever was, has no attach or detach notification waiting for delivery.
C25_NoNotificationAfterDelClient ==
    \A c \in Clients :
       (~InSeq(HIDClientList, c) /\ ~(gpc \in {"delWalk", "delRet"} /\ gclient = c))
       => PendingFor(c) = {}

====
